---- MODULE Spec2Model ----
(***************************************************************************)
(* Model of utilities/compute_fraglen.py: the fragment-length model        *)
(* builder (count_frags -> compute_probs -> median /                       *)
(* median_absolute_deviation -> pickle.dump).                              *)
(*                                                                         *)
(* Numbers.  Python ints and the floats produced by "/" are modelled as    *)
(* exact rationals <<n, d>> in lowest terms with d > 0.  Every float the   *)
(* statistics produce from integer data is a dyadic rational of small      *)
(* magnitude, which IEEE doubles represent exactly; the quotients          *)
(* count / count_sum are kept exact (rounding is not modelled).            *)
(*                                                                         *)
(* Sequences are 1-based here and 0-based in the source: the source index  *)
(* k is the index k + 1 below.                                             *)
(***************************************************************************)
EXTENDS Integers, Sequences, FiniteSets, TLC

VARIABLES pc, file, handle, pos, count_list, datalist, result, med, mad,
          items, values, probabilities, stdout, output_file, exit_status

vars == <<pc, file, handle, pos, count_list, datalist, result, med, mad,
          items, values, probabilities, stdout, output_file, exit_status>>

----------------------------------------------------------------------------
(* Bounds of the model *)

\* longest input sequence of the statistics specification
MaxLen == 4
\* largest element of the statistics inputs (the smallest is -1)
MaxVal == 2
\* longest alignment file of the pipeline specification, in records
MaxRecords == 2
\* largest fragment length and largest support of the distribution inputs
MaxLength == 300
MaxSupport == 300

----------------------------------------------------------------------------
(* Numbers *)

Abs(i) == IF i < 0 THEN -i ELSE i

RECURSIVE GCD(_, _)
GCD(a, b) == IF b = 0 THEN a ELSE GCD(b, a % b)

\* the rational n/d in lowest terms (d > 0)
Norm(n, d) == LET g == GCD(Abs(n), d) IN <<n \div g, d \div g>>

\* the Python int i
Num(i) == <<i, 1>>

Add(x, y) == Norm(x[1] * y[2] + y[1] * x[2], x[2] * y[2])
Sub(x, y) == Norm(x[1] * y[2] - y[1] * x[2], x[2] * y[2])
\* x / y for y > 0 (true division)
Div(x, y) == Norm(x[1] * y[2], x[2] * y[1])
\* k * x for an integer k
Mul(k, x) == Norm(k * x[1], x[2])
\* abs(x)
abs(x) == <<Abs(x[1]), x[2]>>
Lt(x, y) == x[1] * y[2] < y[1] * x[2]
Leq(x, y) == x[1] * y[2] <= y[1] * x[2]

RECURSIVE SortedFrom(_, _)
\* the elements of s whose value is in D, in ascending order: the copies of
\* the least value of D, then those of the other values
SortedFrom(D, s) ==
    IF D = {} THEN <<>>
    ELSE LET v == CHOOSE u \in D : \A w \in D : Leq(u, w)
             copies == Cardinality({i \in 1..Len(s) : s[i] = v})
         IN  [i \in 1..copies |-> v] \o SortedFrom(D \ {v}, s)

\* sorted(s): the ascending rearrangement of the list of numbers s
sorted(s) == SortedFrom({s[i] : i \in 1..Len(s)}, s)

----------------------------------------------------------------------------
(* Results of calls: a value, or an exception that propagated *)

Returned(v) == [raised |-> "none", value |-> v]
Raised(e) == [raised |-> e, value |-> Num(0)]

----------------------------------------------------------------------------
(* median, median_absolute_deviation *)

\* faulty variant of median: the middle element whatever the parity
median_noavg(dl) ==
    LET midpoint == Len(dl) \div 2
    IN  IF Len(dl) = 0 THEN Raised("IndexError")
        ELSE Returned(dl[midpoint + 1])

median(dl) ==
    LET midpoint == Len(dl) \div 2
    IN  IF Len(dl) % 2 = 0
        THEN IF Len(dl) = 0
             THEN Raised("IndexError")     \* datalist[0] of an empty list
             ELSE Returned(Div(Add(dl[midpoint + 1], dl[midpoint]), Num(2)))
        ELSE Returned(dl[midpoint + 1])

\* the list deviations built by the loop of median_absolute_deviation
deviations(dl, my_median) == [i \in 1..Len(dl) |-> abs(Sub(dl[i], my_median))]

\* faulty variant of median_absolute_deviation: signed deviations
median_absolute_deviation_signed(dl) ==
    LET my_median == median(dl)
    IN  IF my_median.raised # "none" THEN my_median
        ELSE median(sorted([i \in 1..Len(dl) |-> Sub(dl[i], my_median.value)]))

median_absolute_deviation(dl) ==
    LET my_median == median(dl)
    IN  IF my_median.raised # "none" THEN my_median
        ELSE median(sorted(deviations(dl, my_median.value)))

----------------------------------------------------------------------------
(* compute_probs *)

FILTER_MINREADS == 100
FILTER_MEDDEV_M == 10

\* datalist.count(item)
count(dl, item) == Cardinality({i \in 1..Len(dl) : dl[i] = item})

\* set(datalist)
DistinctValues(dl) == {dl[i] : i \in 1..Len(dl)}

RECURSIVE sum(_)
\* sum(s) for a list of numbers
sum(s) == IF s = <<>> THEN Num(0) ELSE Add(Head(s), sum(Tail(s)))

\* faulty variant of InRange: strict upper bound
InRange_strict(item, m, d) ==
    Lt(Num(0), item) /\ Lt(item, Add(m, Mul(FILTER_MEDDEV_M, d)))

\* 0 < item <= med + FILTER_MEDDEV_M * mad
InRange(item, m, d) ==
    Lt(Num(0), item) /\ Leq(item, Add(m, Mul(FILTER_MEDDEV_M, d)))

\* faulty variant of Normalise: weights divided by the largest weight
Normalise_max(probs) ==
    LET count_max == CHOOSE w \in {probs[i] : i \in 1..Len(probs)} :
                        \A j \in 1..Len(probs) : Leq(probs[j], w)
    IN  [i \in 1..Len(probs) |-> Div(probs[i], count_max)]

\* count_sum = float(sum(probabilities)); [n / count_sum for n in ...]
Normalise(probs) ==
    LET count_sum == sum(probs)
    IN  [i \in 1..Len(probs) |-> Div(probs[i], count_sum)]

----------------------------------------------------------------------------
(* count_frags *)

filter_mapqual == 10

RECURSIVE BitAnd(_, _)
\* a & b for non-negative integers
BitAnd(a, b) ==
    IF a = 0 \/ b = 0 THEN 0
    ELSE (a % 2) * (b % 2) + 2 * BitAnd(a \div 2, b \div 2)

\* faulty variant of Qualifies: mapping quality of at least the threshold
Qualifies_atleast(item) ==
    /\ BitAnd(item.flag, 1) # 0
    /\ BitAnd(item.flag, 64) # 0
    /\ item.mapping_quality >= filter_mapqual
    /\ \/ item.next_reference_id = "="
       \/ item.next_reference_id = item.reference_id

\* the two nested conditions of the loop of count_frags
Qualifies(item) ==
    /\ BitAnd(item.flag, 1) # 0
    /\ BitAnd(item.flag, 64) # 0
    /\ item.mapping_quality > filter_mapqual
    /\ \/ item.next_reference_id = "="
       \/ item.next_reference_id = item.reference_id

----------------------------------------------------------------------------
(* Inputs *)

\* flag 1: paired, second or unknown in pair; 64: first but not paired;
\* 99: paired, proper pair, mate reverse, first in pair
Flags == {1, 64, 99}
MapQuals == {filter_mapqual, filter_mapqual + 1}
RefIds == {"0"}
NextRefIds == {"0", "1", "="}
TemplateLengths == {-2, 1}

Records ==
    [flag : Flags, mapping_quality : MapQuals, reference_id : RefIds,
     next_reference_id : NextRefIds, template_length : TemplateLengths]

SeqsUpTo(S, n) == UNION {[1..k -> S] : k \in 0..n}

Files ==
    [format : {"unrecognized"}, records : {<<>>}] \cup
    [format : {"bam"}, records : SeqsUpTo(Records, MaxRecords)]

NoFile == [format |-> "none", records |-> <<>>]
Pending == [raised |-> "none", value |-> Num(0)]

StatsInputs == SeqsUpTo({Num(v) : v \in -1..MaxVal}, MaxLen)

\* 0 (never kept); 1; 6 = 1 + 10 * 0.5 and 7, the two sides of the upper
\* bound of a list with median 1 and deviation 0.5; a long fragment
Lengths == {0, 1, 6, 7, MaxLength}
Supports == {0, FILTER_MINREADS - 1, FILTER_MINREADS, 150, MaxSupport}

RECURSIVE ListOfCounts(_, _)
\* the ascending list holding c[v] copies of every length v of S
ListOfCounts(c, S) ==
    IF S = {} THEN <<>>
    ELSE LET v == CHOOSE u \in S : \A w \in S : u <= w
         IN  [i \in 1..c[v] |-> Num(v)] \o ListOfCounts(c, S \ {v})

ProbsInputs == {ListOfCounts(c, Lengths) : c \in [Lengths -> Supports]}

----------------------------------------------------------------------------
(* The command-line tool: main -> count_frags -> compute_probs -> dump *)

Init ==
    /\ pc = "main"
    /\ file \in Files
    /\ handle = "none"
    /\ pos = 0
    /\ count_list = <<>>
    /\ datalist = <<>>
    /\ result = Pending
    /\ med = Num(0)
    /\ mad = Num(0)
    /\ items = {}
    /\ values = <<>>
    /\ probabilities = <<>>
    /\ stdout = <<>>
    /\ output_file = "absent"
    /\ exit_status = -1

\* count_frags, lines 85-89: pysam.AlignmentFile(file, 'rb')
OpenFile ==
    /\ pc = "main"
    /\ IF file.format = "unrecognized"
       THEN /\ stdout' = Append(stdout, "File type not recognized by pysam.")
            /\ exit_status' = 1
            /\ pc' = "exit"
            /\ UNCHANGED handle
       ELSE /\ handle' = "open"
            /\ pc' = "fetch"
            /\ UNCHANGED <<stdout, exit_status>>
    /\ UNCHANGED <<med, mad, items, file, pos, count_list, datalist, result, values,
                   probabilities, output_file>>

\* one iteration of the loop over file_to_parse.fetch()
FetchRecord ==
    /\ pc = "fetch"
    /\ pos < Len(file.records)
    /\ LET item == file.records[pos + 1]
           my_template_length == Num(Abs(item.template_length))
       IN  count_list' = IF Qualifies(item)
                         THEN Append(count_list, my_template_length)
                         ELSE count_list
    /\ pos' = pos + 1
    /\ UNCHANGED <<med, mad, items, pc, file, handle, datalist, result, values, probabilities,
                   stdout, output_file, exit_status>>

\* the reader raises while iterating (truncated or unindexed file): nothing
\* in count_frags or main catches it, the interpreter exits with status 1
FetchError ==
    /\ pc = "fetch"
    /\ result' = Raised("OSError")
    /\ exit_status' = 1
    /\ pc' = "exit"
    /\ UNCHANGED <<med, mad, items, file, handle, pos, count_list, datalist, values,
                   probabilities, stdout, output_file>>

\* end of the loop: sort, close, return to main (all_tlens = datalist)
CountFragsReturn ==
    /\ pc = "fetch"
    /\ pos = Len(file.records)
    /\ count_list' = sorted(count_list)
    /\ handle' = "closed"
    /\ datalist' = sorted(count_list)
    /\ pc' = "print_saving"
    /\ UNCHANGED <<med, mad, items, file, pos, result, values, probabilities, stdout,
                   output_file, exit_status>>

PrintSaving ==
    /\ pc = "print_saving"
    /\ stdout' = Append(stdout, "Saving model...")
    /\ pc' = "compute_probs"
    /\ UNCHANGED <<med, mad, items, file, handle, pos, count_list, datalist, result, values,
                   probabilities, output_file, exit_status>>

\* compute_probs, lines 114-117: the two statistics of the list
ComputeProbsStats ==
    /\ pc = "compute_probs"
    /\ LET m == median(datalist)
           d == median_absolute_deviation(datalist)
       IN  IF m.raised # "none" \/ d.raised # "none"
           THEN /\ result' = Raised(IF m.raised # "none" THEN m.raised
                                    ELSE d.raised)
                /\ exit_status' = 1
                /\ pc' = "exit"
                /\ UNCHANGED <<med, mad, items>>
           ELSE /\ med' = m.value
                /\ mad' = d.value
                /\ items' = DistinctValues(datalist)
                /\ pc' = "probs_loop"
                /\ UNCHANGED <<result, exit_status>>
    /\ values' = <<>>
    /\ probabilities' = <<>>
    /\ UNCHANGED <<file, handle, pos, count_list, datalist, stdout,
                   output_file>>

\* one iteration of the loop over list(set(datalist)); a Python set has no
\* specified iteration order, so any remaining item may come next
ComputeProbsItem ==
    /\ pc = "probs_loop"
    /\ \E item \in items :
         /\ items' = items \ {item}
         /\ IF InRange(item, med, mad) /\ count(datalist, item) >= FILTER_MINREADS
            THEN /\ values' = Append(values, item)
                 /\ probabilities' =
                        Append(probabilities, Num(count(datalist, item)))
            ELSE UNCHANGED <<values, probabilities>>
    /\ UNCHANGED <<pc, file, handle, pos, count_list, datalist, result, med,
                   mad, stdout, output_file, exit_status>>

\* compute_probs, lines 125-127: normalise and return to main
ComputeProbsReturn ==
    /\ pc = "probs_loop"
    /\ items = {}
    /\ probabilities' = Normalise(probabilities)
    /\ pc' = "dump"
    /\ UNCHANGED <<file, handle, pos, count_list, datalist, result, med, mad,
                   items, values, stdout, output_file, exit_status>>

\* pickle.dump([out_vals, out_probs], open(output, 'wb'))
Dump ==
    /\ pc = "dump"
    /\ output_file' = <<values, probabilities>>
    /\ pc' = "print_saved"
    /\ UNCHANGED <<med, mad, items, file, handle, pos, count_list, datalist, result, values,
                   probabilities, stdout, exit_status>>

\* the last print of main, then the interpreter exits with status 0
PrintSaved ==
    /\ pc = "print_saved"
    /\ stdout' = Append(stdout, "Model successfully saved.")
    /\ exit_status' = 0
    /\ pc' = "exit"
    /\ UNCHANGED <<med, mad, items, file, handle, pos, count_list, datalist, result, values,
                   probabilities, output_file>>

Next ==
    \/ OpenFile
    \/ FetchRecord
    \/ FetchError
    \/ CountFragsReturn
    \/ PrintSaving
    \/ ComputeProbsStats
    \/ ComputeProbsItem
    \/ ComputeProbsReturn
    \/ Dump
    \/ PrintSaved

Spec == Init /\ [][Next]_vars

----------------------------------------------------------------------------
(* The statistics functions applied to sequences in any order *)

InitStats ==
    /\ pc = "stats"
    /\ datalist \in StatsInputs
    /\ result = Pending
    /\ file = NoFile
    /\ handle = "none"
    /\ pos = 0
    /\ count_list = <<>>
    /\ med = Num(0)
    /\ mad = Num(0)
    /\ items = {}
    /\ values = <<>>
    /\ probabilities = <<>>
    /\ stdout = <<>>
    /\ output_file = "absent"
    /\ exit_status = -1

CallMedian ==
    /\ pc = "stats"
    /\ result' = median(datalist)
    /\ pc' = "median_done"
    /\ UNCHANGED <<file, handle, pos, count_list, datalist, med, mad, items,
                   values, probabilities, stdout, output_file, exit_status>>

CallMedianAbsoluteDeviation ==
    /\ pc = "stats"
    /\ result' = median_absolute_deviation(datalist)
    /\ pc' = "mad_done"
    /\ UNCHANGED <<file, handle, pos, count_list, datalist, med, mad, items,
                   values, probabilities, stdout, output_file, exit_status>>

NextStats == CallMedian \/ CallMedianAbsoluteDeviation

SpecStats == InitStats /\ [][NextStats]_vars

----------------------------------------------------------------------------
(* main from the return of count_frags on, for alignment files large       *)
(* enough to give lengths real support.  The initial states are the states *)
(* of main at line 155: count_frags has returned the sorted list all_tlens *)
(* (datalist), the handle is closed, "Saving model..." is printed.  The    *)
(* records themselves are not kept.                                        *)

InitProbs ==
    /\ pc = "compute_probs"
    /\ datalist \in ProbsInputs
    /\ count_list = datalist
    /\ result = Pending
    /\ file = NoFile
    /\ handle = "closed"
    /\ pos = 0
    /\ med = Num(0)
    /\ mad = Num(0)
    /\ items = {}
    /\ values = <<>>
    /\ probabilities = <<>>
    /\ stdout = <<"Saving model...">>
    /\ output_file = "absent"
    /\ exit_status = -1

NextProbs ==
    \/ ComputeProbsStats
    \/ ComputeProbsItem
    \/ ComputeProbsReturn
    \/ Dump
    \/ PrintSaved

SpecProbs == InitProbs /\ [][NextProbs]_vars

----------------------------------------------------------------------------
(* Properties *)

IsAscending(s) == \A i \in 1..(Len(s) - 1) : Leq(s[i], s[i + 1])

\* C1: for a non-empty ascending list, median returns the element at
\* (0-based) index len // 2 when the length is odd, and the average of the
\* elements at indices len // 2 and len // 2 - 1 when it is even; a
\* singleton gives its only element.  The average a is stated as
\* a + a = x + y.
C1_MedianOfSorted ==
    (pc = "median_done" /\ Len(datalist) > 0 /\ IsAscending(datalist)) =>
        LET n == Len(datalist)
            h == n \div 2
        IN  /\ result.raised = "none"
            /\ n % 2 = 1 => result.value = datalist[h + 1]
            /\ n % 2 = 0 => Add(result.value, result.value)
                                = Add(datalist[h + 1], datalist[h])
            /\ n = 1 => result.value = datalist[1]

\* an even-length ascending list whose two central elements differ
C1_Witness ==
    /\ pc = "median_done"
    /\ IsAscending(datalist)
    /\ Len(datalist) >= 2 /\ Len(datalist) % 2 = 0
    /\ datalist[Len(datalist) \div 2] # datalist[Len(datalist) \div 2 + 1]
    /\ result.raised = "none"

\* C2: the result of median_absolute_deviation does not depend on the order
\* of its input: it equals the result on the sorted input.
C2_MADOrderIndependent ==
    pc = "mad_done" => result = median_absolute_deviation(sorted(datalist))

\* C3 as stated: for every sequence, median_absolute_deviation returns a
\* value that is >= 0.
C3_MADNonNegativeAll ==
    pc = "mad_done" => (result.raised = "none" /\ Leq(Num(0), result.value))

\* C3, amended: for every non-empty sequence, median_absolute_deviation
\* returns a value that is >= 0 (on the empty sequence it raises IndexError).
C3_MADNonNegative ==
    /\ (pc = "mad_done" /\ Len(datalist) > 0) =>
           (result.raised = "none" /\ Leq(Num(0), result.value))
    /\ (pc = "mad_done" /\ Len(datalist) = 0) => result.raised = "IndexError"

\* a list in any order with an element below the value used as its median,
\* and a positive deviation
C3_Witness ==
    /\ pc = "mad_done"
    /\ Len(datalist) > 0
    /\ \E i \in 1..Len(datalist) : Lt(datalist[i], median(datalist).value)
    /\ Lt(Num(0), result.value)

\* the number of positions of the list s holding v
Occurrences(s, v) == Cardinality({i \in 1..Len(s) : s[i] = v})

\* med + 10 * mad of the list dl
UpperBound(dl) ==
    Add(median(dl).value, Mul(10, median_absolute_deviation(dl).value))

RECURSIVE TotalSupport(_, _)
\* the occurrences in dl of the lengths vals[1], ..., vals[k] together
TotalSupport(dl, vals) ==
    IF vals = <<>> THEN 0
    ELSE Occurrences(dl, Head(vals)) + TotalSupport(dl, Tail(vals))

\* C5: probabilities is as long as values, probabilities[i] is the number of
\* occurrences of values[i] divided by the occurrences of all retained
\* values, the probabilities sum to 1 when values is not empty, and 150
\* observations of length 300 give [300] and [1.0].
C5_Probabilities ==
    pc = "dump" =>
        /\ Len(probabilities) = Len(values)
        /\ \A i \in 1..Len(values) :
              Mul(TotalSupport(datalist, values), probabilities[i])
                  = Num(Occurrences(datalist, values[i]))
        /\ values # <<>> => sum(probabilities) = Num(1)
        /\ datalist = [i \in 1..150 |-> Num(300)] =>
              (values = <<Num(300)>> /\ probabilities = <<Num(1)>>)

\* two retained lengths with different supports
C5_Witness ==
    /\ pc = "dump"
    /\ Len(values) = 2
    /\ Lt(probabilities[1], probabilities[2])
    /\ Lt(Num(0), probabilities[1])

\* C6: when no value clears both thresholds, compute_probs returns two empty
\* lists and does not raise.  Control has left compute_probs either by the
\* return (pc = "dump") or by an exception (exit with status 1).
C6_EmptyWhenNoneQualifies ==
    LET left == pc = "dump" \/ (pc = "exit" /\ exit_status = 1)
        noneClears ==
            \A v \in DistinctValues(datalist) :
                ~(InRange(v, med, mad) /\ Occurrences(datalist, v) >= 100)
    IN  (left /\ noneClears) =>
            (pc = "dump" /\ values = <<>> /\ probabilities = <<>>)

\* the conditions of C7 on one record, on the bits of the flag
C7_Selected(r) ==
    /\ r.flag % 2 = 1
    /\ (r.flag \div 64) % 2 = 1
    /\ r.mapping_quality > 10
    /\ r.next_reference_id \in {r.reference_id, "="}

C8_ExitProtocol ==
    pc = "exit" =>
        IF file.format = "unrecognized"
        THEN /\ exit_status = 1
             /\ stdout = <<"File type not recognized by pysam.">>
             /\ output_file = "absent"
        ELSE \/ result.raised = "OSError"
             \/ /\ exit_status = 0
                /\ stdout = <<"Saving model...", "Model successfully saved.">>
                /\ output_file = <<values, probabilities>>

\* C9: whenever control has left count_frags, however it left, a handle
\* that was opened has been closed.
C9_HandleClosed ==
    pc \notin {"main", "fetch"} => handle # "open"

\* C10: median is never called on an empty list: when main has reached the
\* call compute_probs(all_tlens), whose first statement is
\* median(datalist), the list is not empty.
C10_MedianArgumentNonEmpty ==
    pc = "compute_probs" => Len(datalist) > 0

====
